---------------------------- MODULE Spec2Model ----------------------------
(***************************************************************************)
(* Model of pulp_python/app/viewsets.py:                                   *)
(*   - PythonPackageContentViewSet.create : the metadata-extraction        *)
(*     pipeline (format detection, temporary workspace, metadata reader,   *)
(*     validation, transactional persistence);                             *)
(*   - PythonRemoteViewSet.sync and PythonPublisherViewSet.publish : the   *)
(*     dispatch of reserved jobs to the job runtime.                       *)
(* Strings that the code inspects character by character (filenames and    *)
(* extensions) are sequences of one-character strings.                     *)
(***************************************************************************)
EXTENDS Integers, Sequences, FiniteSets, TLC

VARIABLES
    creq,       \* create requests: position in create() and its locals
    store,      \* content table rows (txn = 0: committed, else owning request)
    tempdirs,   \* temporary directories that exist on disk
    dirCount,   \* number of temporary directories made so far
    jobs,       \* jobs handed to the job runtime, in enqueue order
    latest,     \* latest complete version number of each repository
    resp        \* responses of the sync/publish requests handled so far

vars == <<creq, store, tempdirs, dirCount, jobs, latest, resp>>

createVars == <<creq, store, tempdirs, dirCount>>
dispatchVars == <<jobs, latest, resp>>

-----------------------------------------------------------------------------
(* Bounds of the model *)

\* number of create requests (each may run concurrently with the others)
MaxRequests == 2
\* number of name pieces appended to a stem to build an input filename
MaxPieces == 2
\* number of sync/publish requests handled
MaxJobs == 2
\* highest repository version number a sync may create
MaxVersion == 2

Requests == 1..MaxRequests

-----------------------------------------------------------------------------
(* Strings *)

EndsWith(s, suffix) ==
    /\ Len(s) >= Len(suffix)
    /\ SubSeq(s, Len(s) - Len(suffix) + 1, Len(s)) = suffix

ExtWhl == <<".", "w", "h", "l">>
ExtExe == <<".", "e", "x", "e">>
ExtEgg == <<".", "e", "g", "g">>
ExtTarBz2 == <<".", "t", "a", "r", ".", "b", "z", "2">>
ExtTarGz == <<".", "t", "a", "r", ".", "g", "z">>
ExtZip == <<".", "z", "i", "p">>

\* the extension table with a ".gz" entry added
DIST_EXTENSIONS_WithGz ==
    << [ext |-> ExtWhl,    packagetype |-> "bdist_wheel"],
       [ext |-> ExtExe,    packagetype |-> "bdist_wininst"],
       [ext |-> ExtEgg,    packagetype |-> "bdist_egg"],
       [ext |-> <<".", "g", "z">>, packagetype |-> "bdist_egg"],
       [ext |-> ExtTarBz2, packagetype |-> "sdist"],
       [ext |-> ExtTarGz,  packagetype |-> "sdist"],
       [ext |-> ExtZip,    packagetype |-> "sdist"] >>

\* the extension table, in the order the dict literal lists (and iterates) it
DIST_EXTENSIONS ==
    << [ext |-> ExtWhl,    packagetype |-> "bdist_wheel"],
       [ext |-> ExtExe,    packagetype |-> "bdist_wininst"],
       [ext |-> ExtEgg,    packagetype |-> "bdist_egg"],
       [ext |-> ExtTarBz2, packagetype |-> "sdist"],
       [ext |-> ExtTarGz,  packagetype |-> "sdist"],
       [ext |-> ExtZip,    packagetype |-> "sdist"] >>

\* the reader class the format tag selects
DIST_TYPES ==
    [t \in {"bdist_wheel", "bdist_wininst", "bdist_egg", "sdist"} |->
        CASE t = "bdist_wheel"   -> "pkginfo.Wheel"
          [] t = "bdist_wininst" -> "pkginfo.Distribution"
          [] t = "bdist_egg"     -> "pkginfo.BDist"
          [] t = "sdist"         -> "pkginfo.SDist"]

MinOf(S) == CHOOSE x \in S : \A y \in S : x <= y

\* the text after the last dot, dot included (os.path.splitext)
SplitExt(filename) ==
    LET dots == {i \in 1..Len(filename) : filename[i] = "."}
    IN  IF dots = {} THEN <<>>
        ELSE LET d == CHOOSE i \in dots : \A j \in dots : j <= i
             IN  SubSeq(filename, d, Len(filename))

\* a detector that looks the splitext extension up in the table
DetectBySplitExt(filename) ==
    LET hit == {i \in DOMAIN DIST_EXTENSIONS :
                   DIST_EXTENSIONS[i].ext = SplitExt(filename)}
    IN  IF hit = {} THEN "none" ELSE DIST_EXTENSIONS[MinOf(hit)].packagetype

\* s holds part as a contiguous piece
Contains(s, part) ==
    \E i \in 1..(Len(s) - Len(part) + 1) : SubSeq(s, i, i + Len(part) - 1) = part

\* a detector that tests `ext in filename` instead of filename.endswith(ext)
DetectByContains(filename) ==
    LET hit == {i \in DOMAIN DIST_EXTENSIONS :
                   Contains(filename, DIST_EXTENSIONS[i].ext)}
    IN  IF hit = {} THEN "none" ELSE DIST_EXTENSIONS[MinOf(hit)].packagetype

\* the for/else loop: the first table entry the filename ends with
Detect(filename) ==
    LET hit == {i \in DOMAIN DIST_EXTENSIONS :
                   EndsWith(filename, DIST_EXTENSIONS[i].ext)}
    IN  IF hit = {} THEN "none" ELSE DIST_EXTENSIONS[MinOf(hit)].packagetype

\* the suffix list of the message, with ".tar.bz2" forgotten
AcceptedInMessageShort == <<ExtWhl, ExtExe, ExtEgg, ExtTarGz, ExtZip>>

\* the suffix list written in the "not a valid python extension" message
AcceptedInMessage == <<ExtWhl, ExtExe, ExtEgg, ExtTarGz, ExtTarBz2, ExtZip>>

-----------------------------------------------------------------------------
(* Inputs of create *)

Stems == {<<>>, <<"p">>}

Pieces ==
    {ExtWhl, ExtExe, ExtEgg, ExtTarBz2, ExtTarGz, ExtZip,
     <<".", "g", "z">>, <<".", "b", "z", "2">>, <<".", "t", "a", "r">>,
     <<"w", "h", "l">>, <<".", "z", "i", "p", "x">>}

RECURSIVE Build(_)
Build(k) ==
    IF k = 0 THEN Stems
    ELSE LET shorter == Build(k - 1)
         IN  shorter \cup {s \o p : s \in shorter, p \in Pieces}

\* every filename made of a stem and at most MaxPieces pieces
AllFilenames == Build(MaxPieces)

\* the filenames the concurrent requests draw from
FewFilenames == {<<"p">> \o ExtWhl, <<"p">> \o ExtTarGz, <<"p", ".", "g", "z">>}

\* artifact references: two stored artifacts and one that resolves to nothing
ArtifactRefs == {"a1", "a2", "nx"}


\* what the metadata reader finds in each stored artifact's archive: a1 is
\* a wheel whose metadata says so, a2 an archive without name or type
ArtifactMeta ==
    [a \in {"a1", "a2"} |->
        IF a = "a1"
        THEN [name |-> "pkg", version |-> "1.0", classifiers |-> <<"c1", "c2", "c1">>,
              packagetype |-> "bdist_wheel"]
        ELSE [name |-> "",    version |-> "2.0", classifiers |-> <<"c2">>,
              packagetype |-> "none"]]

\* request.data: the fields present and their values (absent fields canonical)
RequestData(filenames) ==
    {d \in [fields : SUBSET {"artifact", "filename"},
            artifact : ArtifactRefs,
            filename : filenames \cup {<<>>}] :
        /\ ("artifact" \notin d.fields => d.artifact = "a1")
        /\ ("filename" \notin d.fields => d.filename = <<>>)}

-----------------------------------------------------------------------------
(* PythonPackageContentViewSet.create *)

NoError == [kind |-> "none"]
EmptyMeta == [name |-> "", version |-> "", classifiers |-> <<>>, packagetype |-> "unset"]
EmptyData == [name |-> "", version |-> "", classifiers |-> <<>>, packagetype |-> "unset",
              filename |-> <<>>, artifact |-> "none"]

IdleRequest ==
    [pc |-> "idle", fields |-> {}, artifact |-> "a1", filename |-> <<>>,
     packagetype |-> "unset", td |-> 0, reads |-> 0,
     metadata |-> EmptyMeta, data |-> EmptyData, error |-> NoError, status |-> 0]

\* the create view without @transaction.atomic: every write commits at once
NotAtomic == FALSE

\* @transaction.atomic on create: its writes commit when it returns, and are
\* rolled back when it raises
Atomic == TRUE

\* the transaction a write of request r belongs to (0: committed at once)
DbTxn(r) == IF Atomic THEN r ELSE 0

\* the rows other requests can read
Visible == {u \in store : u.txn = 0}

\* the rows left when the transaction of request r is rolled back
RolledBack(r) == {u \in store : u.txn # r}

\* the rows after the transaction of request r commits
Committed(r) == {IF u.txn = r THEN [u EXCEPT !.txn = 0] ELSE u : u \in store}

\* the error of line 84 naming the field of line 79
FilenameRequiredPasted == [kind |-> "required", field |-> "artifact"]

ArtifactRequired == [kind |-> "required", field |-> "artifact"]
FilenameRequired == [kind |-> "required", field |-> "filename"]

\* the message of the for/else branch with a shortened suffix list
UnsupportedShort(filename) ==
    [kind |-> "extension", filename |-> filename, accepted |-> AcceptedInMessageShort]

\* the ValidationError of the for/else branch
Unsupported(filename) ==
    [kind |-> "extension", filename |-> filename, accepted |-> AcceptedInMessage]

\* a request that ends by raising: the response carries the error
Raise(r, err, code) ==
    [creq[r] EXCEPT !.pc = "done", !.error = err, !.status = code]

\* lines 76-93 and 99-103: the required fields, the detection loop and, on a
\* match, the entry into the temporary directory
Begin(r, d) ==
    /\ creq[r].pc = "idle"
    /\ LET q == [creq[r] EXCEPT !.fields = d.fields, !.artifact = d.artifact,
                                !.filename = d.filename]
           fail(err) == [q EXCEPT !.pc = "done", !.error = err, !.status = 400]
       IN  IF "artifact" \notin d.fields
           THEN /\ creq' = [creq EXCEPT ![r] = fail(ArtifactRequired)]
                /\ UNCHANGED <<tempdirs, dirCount>>
           ELSE IF d.artifact = "nx"
           THEN /\ creq' = [creq EXCEPT ![r] =
                               fail([kind |-> "invalid", field |-> "artifact"])]
                /\ UNCHANGED <<tempdirs, dirCount>>
           ELSE IF "filename" \notin d.fields
           THEN /\ creq' = [creq EXCEPT ![r] = fail(FilenameRequired)]
                /\ UNCHANGED <<tempdirs, dirCount>>
           ELSE IF Detect(d.filename) = "none"
           THEN /\ creq' = [creq EXCEPT ![r] =
                               [fail(Unsupported(d.filename)) EXCEPT
                                   !.packagetype = "none"]]
                /\ UNCHANGED <<tempdirs, dirCount>>
           ELSE /\ dirCount' = dirCount + 1
                /\ tempdirs' = tempdirs \cup {dirCount + 1}
                /\ creq' = [creq EXCEPT ![r] =
                               [q EXCEPT !.pc = "workspace",
                                         !.packagetype = Detect(d.filename),
                                         !.td = dirCount + 1]]
    /\ UNCHANGED <<store, dispatchVars>>

\* a create request arrives with any request.data over the given filenames
BeginAny(r, filenames) ==
    /\ creq[r].pc = "idle"
    /\ \E d \in RequestData(filenames) : Begin(r, d)

\* an exception that leaves the directory behind (mkdtemp without the
\* context manager, removed only on the normal path)
LeaveWithRaisingNoCleanup(r) == tempdirs

\* an exception propagates out of the `with tempfile.TemporaryDirectory()`
\* block: the directory is removed
LeaveWithRaising(r) == tempdirs \ {creq[r].td}

\* `break` leaves the `with tempfile.TemporaryDirectory()` block: the
\* directory is removed
LeaveWith(r) == tempdirs \ {creq[r].td}

\* line 95: shutil.copy2 raises
CopyRaises(r) ==
    /\ creq[r].pc = "workspace"
    /\ tempdirs' = LeaveWithRaising(r)
    /\ store' = RolledBack(r)
    /\ creq' = [creq EXCEPT ![r] = Raise(r, [kind |-> "copy"], 500)]
    /\ UNCHANGED <<dirCount, dispatchVars>>

\* line 96: the reader raises on the copied file
ReaderRaises(r) ==
    /\ creq[r].pc = "workspace"
    /\ tempdirs' = LeaveWithRaising(r)
    /\ store' = RolledBack(r)
    /\ creq' = [creq EXCEPT ![r] =
                   [Raise(r, [kind |-> "reader"], 500) EXCEPT !.reads = @ + 1]]
    /\ UNCHANGED <<dirCount, dispatchVars>>

\* parse_project_metadata: the canonical fields of the reader's field bag
ParseProjectMetadata(m) ==
    [name |-> m.name, version |-> m.version, classifiers |-> m.classifiers,
     packagetype |-> m.packagetype, filename |-> <<>>, artifact |-> "none"]

\* line 96: the reader's object for the copied file
Reader(artifact) == ArtifactMeta[artifact]

\* the reader's object left as read
TaggedAsRead(m, packagetype) == m

\* line 97: metadata.packagetype = packagetype
Tagged(m, packagetype) == [m EXCEPT !.packagetype = packagetype]

\* a sequence without its repeated elements
RECURSIVE Distinct(_)
Distinct(cs) ==
    IF cs = <<>> THEN <<>>
    ELSE LET front == Distinct(SubSeq(cs, 1, Len(cs) - 1))
             last == cs[Len(cs)]
         IN  IF \E i \in DOMAIN front : front[i] = last
             THEN front ELSE Append(front, last)

\* the classifiers collected as a set of names
ClassifierRecordsDistinct(cs) ==
    [i \in DOMAIN Distinct(cs) |-> [name |-> Distinct(cs)[i]]]

\* line 106: [{'name': classifier} for classifier in metadata.classifiers]
ClassifierRecords(cs) == [i \in DOMAIN cs |-> [name |-> cs[i]]]

\* lines 95-98 and 105-110: copy, read, tag the metadata with the detected
\* type, leave the directory, and assemble the serializer's data
ReadOk(r) ==
    /\ creq[r].pc = "workspace"
    /\ LET q == creq[r]
           m == Tagged(Reader(q.artifact), q.packagetype)
           d == [ParseProjectMetadata(m) EXCEPT
                    !.classifiers = ClassifierRecords(m.classifiers),
                    !.packagetype = m.packagetype,
                    !.version = m.version,
                    !.filename = q.filename,
                    !.artifact = q.artifact]
       IN  creq' = [creq EXCEPT ![r] =
                       [q EXCEPT !.pc = "assembled", !.reads = @ + 1,
                                 !.metadata = m, !.data = d]]
    /\ tempdirs' = LeaveWith(r)
    /\ UNCHANGED <<store, dirCount, dispatchVars>>

\* the store's uniqueness key of a row
UniqueKey(u) == <<u.artifact, u.filename>>

\* a store that enforces no uniqueness
DuplicateNever(r) == FALSE

\* a committed row already has the key of the data of request r
Duplicate(r) == \E u \in Visible : UniqueKey(u) = UniqueKey(creq[r].data)

\* line 113: is_valid(raise_exception=True) raises
ValidateRaises(r) ==
    /\ creq[r].pc = "assembled"
    /\ creq[r].data.name = "" \/ Duplicate(r)
    /\ store' = RolledBack(r)
    /\ creq' = [creq EXCEPT ![r] =
                   Raise(r, IF creq[r].data.name = ""
                            THEN [kind |-> "invalid", field |-> "name"]
                            ELSE [kind |-> "conflict"], 400)]
    /\ UNCHANGED <<tempdirs, dirCount, dispatchVars>>

\* line 113: the data is valid
ValidateOk(r) ==
    /\ creq[r].pc = "assembled"
    /\ creq[r].data.name # ""
    /\ ~Duplicate(r)
    /\ creq' = [creq EXCEPT ![r].pc = "valid"]
    /\ UNCHANGED <<store, tempdirs, dirCount, dispatchVars>>

\* the content row of the data of request r, before its classifiers are saved
NewRow(r) ==
    [owner |-> r, txn |-> DbTxn(r),
     artifact |-> creq[r].data.artifact, filename |-> creq[r].data.filename,
     name |-> creq[r].data.name, version |-> creq[r].data.version,
     packagetype |-> creq[r].data.packagetype, classifiers |-> <<>>]

\* another open transaction holds an uncommitted row with the same key
KeyLocked(r) ==
    \E u \in store : u.txn \notin {0, r} /\ UniqueKey(u) = UniqueKey(creq[r].data)

\* line 114, first write of perform_create: the content row; the store's
\* uniqueness constraint rejects a key that is already committed
InsertUnit(r) ==
    /\ creq[r].pc = "valid"
    /\ ~KeyLocked(r)
    /\ IF Duplicate(r)
       THEN /\ store' = RolledBack(r)
            /\ creq' = [creq EXCEPT ![r] = Raise(r, [kind |-> "conflict"], 500)]
       ELSE /\ store' = store \cup {NewRow(r)}
            /\ creq' = [creq EXCEPT ![r].pc = "inserted"]
    /\ UNCHANGED <<tempdirs, dirCount, dispatchVars>>

\* line 114, second write of perform_create: the classifier rows of the unit
InsertClassifiers(r) ==
    /\ creq[r].pc = "inserted"
    /\ store' = {IF u.owner = r
                 THEN [u EXCEPT !.classifiers = creq[r].data.classifiers]
                 ELSE u : u \in store}
    /\ creq' = [creq EXCEPT ![r].pc = "saved"]
    /\ UNCHANGED <<tempdirs, dirCount, dispatchVars>>

\* line 114: the persistence layer fails on either write
PersistRaises(r) ==
    /\ creq[r].pc \in {"valid", "inserted"}
    /\ store' = RolledBack(r)
    /\ creq' = [creq EXCEPT ![r] = Raise(r, [kind |-> "db", at |-> creq[r].pc], 500)]
    /\ UNCHANGED <<tempdirs, dirCount, dispatchVars>>

\* lines 116-117: the 201 response; the transaction commits as create returns
Return(r) ==
    /\ creq[r].pc = "saved"
    /\ store' = Committed(r)
    /\ creq' = [creq EXCEPT ![r].pc = "done", ![r].status = 201]
    /\ UNCHANGED <<tempdirs, dirCount, dispatchVars>>

\* every step of create after its first
CreateStep(r) ==
    \/ CopyRaises(r)
    \/ ReaderRaises(r)
    \/ ReadOk(r)
    \/ ValidateRaises(r)
    \/ ValidateOk(r)
    \/ InsertUnit(r)
    \/ InsertClassifiers(r)
    \/ PersistRaises(r)
    \/ Return(r)

-----------------------------------------------------------------------------
(* Resources of the dispatcher *)

Repos == {"r1", "r2"}
Remotes == {"m1", "m2"}
Publishers == {"p1", "p2"}
None == "none"
\* no repository version (the None of a version-valued expression)
NoVersion == <<"none", 0>>

\* a repository version: its repository and its number
VersionOf(repo, n) == <<repo, n>>

\* the complete versions that exist
Versions == {VersionOf(repo, n) : repo \in Repos, n \in 1..MaxVersion}
Existing == {v \in Versions : v[2] <= latest[v[1]]}

\* RepositoryVersion.latest: the newest complete version, None without one
Latest(repo) == IF latest[repo] = 0 THEN NoVersion ELSE VersionOf(repo, latest[repo])

\* request.data of a sync request
SyncData == [repository : Repos \cup {None}, mirror : BOOLEAN]

\* request.data of a publish request
PublishData == [repository_version : Existing \cup {NoVersion}, repository : Repos \cup {None}]

\* the request a response answers: the remote or publisher it was addressed
\* to, the selectors its data supplied and the repository it named
RequestOf(target, given, repository) ==
    [target |-> target, given |-> given, repository |-> repository]

NoResponse == [op |-> "none", status |-> 0, job |-> 0] @@ RequestOf(None, {}, None)

\* the selectors request.data supplies
SyncGiven(d) == IF d.repository # None THEN {"repository"} ELSE {}
PublishGiven(d) ==
    (IF d.repository_version # NoVersion THEN {"repository_version"} ELSE {})
        \cup (IF d.repository # None THEN {"repository"} ELSE {})

\* OperationPostponedResponse: 202 with the handle of the job just enqueued
Postponed(op) == [op |-> op, status |-> 202, job |-> Len(jobs) + 1]

\* a request that raises before enqueue_with_reservation
Rejected(op, code) == [op |-> op, status |-> code, job |-> 0]

\* a dispatcher that waits for the job's result before it answers
EnqueueAndWait(op, resources, kwargs, resolved) ==
    Append(jobs, [op |-> op, resources |-> resources, kwargs |-> kwargs,
                  state |-> "succeeded", resolved |-> resolved])

\* enqueue_with_reservation: the job joins the runtime's queue with its
\* reservation
Enqueue(op, resources, kwargs, resolved) ==
    Append(jobs, [op |-> op, resources |-> resources, kwargs |-> kwargs,
                  state |-> "queued", resolved |-> resolved])

-----------------------------------------------------------------------------
(* PythonRemoteViewSet.sync *)

\* RepositorySyncURLSerializer.is_valid: the repository is required
SyncValid(d) == d.repository # None

\* a reservation that names the remote alone
SyncResourcesRemoteOnly(repository, remote) == {remote}

\* a reservation that names every remote
SyncResourcesAllRemotes(repository, remote) == {repository} \cup Remotes

\* line 163: the resources the sync job reserves
SyncResources(repository, remote) == {repository, remote}

\* lines 152-170
Sync(remote, d) ==
    /\ Len(jobs) < MaxJobs
    /\ IF ~SyncValid(d)
       THEN /\ resp' = Rejected("sync", 400)
                        @@ RequestOf(remote, SyncGiven(d), d.repository)
            /\ UNCHANGED jobs
       ELSE /\ jobs' = Enqueue("sync", SyncResources(d.repository, remote),
                               [remote_pk |-> remote,
                                repository_pk |-> d.repository,
                                mirror |-> d.mirror],
                               FALSE)
            /\ resp' = Postponed("sync")
                        @@ RequestOf(remote, SyncGiven(d), d.repository)
    /\ UNCHANGED <<latest, createVars>>

-----------------------------------------------------------------------------
(* PythonPublisherViewSet.publish *)

\* a serializer that only asks for one of the two selectors at least
PublishValidNotNeither(d) == d.repository_version # NoVersion \/ d.repository # None

\* RepositoryPublishURLSerializer.is_valid: a version or a repository, not both
PublishValid(d) == (d.repository_version = NoVersion) # (d.repository = None)

\* a reservation that names the publisher alone
PublishResourcesPublisherOnly(repository_version, publisher) == {publisher}

\* line 206: the resources the publish job reserves
PublishResources(repository_version, publisher) == {repository_version[1], publisher}

\* lines 191-212
Publish(publisher, d) ==
    /\ Len(jobs) < MaxJobs
    /\ LET repository_version ==
               IF d.repository_version # NoVersion THEN d.repository_version
               ELSE Latest(d.repository)
       IN  IF ~PublishValid(d)
           THEN /\ resp' = Rejected("publish", 400)
                            @@ RequestOf(publisher, PublishGiven(d), d.repository)
                /\ UNCHANGED jobs
           ELSE IF repository_version = NoVersion
           THEN \* line 206: None has no attribute `repository`
                /\ resp' = Rejected("publish", 500)
                            @@ RequestOf(publisher, PublishGiven(d), d.repository)
                /\ UNCHANGED jobs
           ELSE /\ jobs' = Enqueue("publish",
                                   PublishResources(repository_version, publisher),
                                   [publisher_pk |-> publisher,
                                    repository_version_pk |-> repository_version],
                                   d.repository_version = NoVersion)
                /\ resp' = Postponed("publish")
                            @@ RequestOf(publisher, PublishGiven(d), d.repository)
    /\ UNCHANGED <<latest, createVars>>

-----------------------------------------------------------------------------
(* The job runtime *)

Active(i) == jobs[i].state \in {"queued", "running"}
Terminal(i) == jobs[i].state \in {"succeeded", "failed", "canceled"}
Conflict(i, j) == jobs[i].resources \cap jobs[j].resources # {}

\* a runtime that lets a job pass the queued jobs ahead of it
BlockedByRunningOnly(j) ==
    \E i \in DOMAIN jobs : i # j /\ Conflict(i, j) /\ jobs[i].state = "running"

\* job j waits while a job with an overlapping reservation runs, or was
\* enqueued before it and has not started
Blocked(j) ==
    \E i \in DOMAIN jobs :
        /\ i # j
        /\ Conflict(i, j)
        /\ \/ jobs[i].state = "running"
           \/ i < j /\ jobs[i].state = "queued"

\* a worker takes job j
StartJob(j) ==
    /\ j \in DOMAIN jobs
    /\ jobs[j].state = "queued"
    /\ ~Blocked(j)
    /\ jobs' = [jobs EXCEPT ![j].state = "running"]
    /\ UNCHANGED <<latest, resp, createVars>>

\* the repository of a sync job
SyncRepo(j) == jobs[j].kwargs.repository_pk

\* tasks.sync ends: a successful sync may have completed a new version of its
\* repository
FinishSync(j, outcome, made) ==
    /\ j \in DOMAIN jobs
    /\ jobs[j].state = "running"
    /\ jobs[j].op = "sync"
    /\ made => outcome = "succeeded" /\ latest[SyncRepo(j)] < MaxVersion
    /\ jobs' = [jobs EXCEPT ![j].state = outcome]
    /\ latest' = IF made THEN [latest EXCEPT ![SyncRepo(j)] = @ + 1] ELSE latest
    /\ UNCHANGED <<resp, createVars>>

\* tasks.publish ends
FinishPublish(j, outcome) ==
    /\ j \in DOMAIN jobs
    /\ jobs[j].state = "running"
    /\ jobs[j].op = "publish"
    /\ jobs' = [jobs EXCEPT ![j].state = outcome]
    /\ UNCHANGED <<latest, resp, createVars>>

\* a queued job is canceled: its reservation is released
CancelQueued(j) ==
    /\ j \in DOMAIN jobs
    /\ jobs[j].state = "queued"
    /\ jobs' = [jobs EXCEPT ![j].state = "canceled"]
    /\ UNCHANGED <<latest, resp, createVars>>

-----------------------------------------------------------------------------
(* Specifications *)

Init ==
    /\ creq = [r \in Requests |-> IdleRequest]
    /\ store = {}
    /\ tempdirs = {}
    /\ dirCount = 0
    /\ jobs = <<>>
    /\ latest \in [Repos -> {0, 1}]
    /\ resp = NoResponse

\* concurrent create requests over a few filenames
NextCreate ==
    \E r \in Requests :
        \/ BeginAny(r, FewFilenames)
        \/ CreateStep(r)

\* the create requests run beside an idle dispatcher
InitCreate == Init /\ latest = [repo \in Repos |-> 0]

SpecCreate == InitCreate /\ [][NextCreate]_vars

\* one create request over every input filename
NextDetect ==
    \/ BeginAny(1, AllFilenames)
    \/ CreateStep(1)

SpecDetect == InitCreate /\ [][NextDetect]_vars

\* sync and publish requests, and the runtime working off the queue
NextDispatch ==
    \/ \E remote \in Remotes, d \in SyncData : Sync(remote, d)
    \/ \E publisher \in Publishers, d \in PublishData : Publish(publisher, d)
    \/ \E j \in 1..MaxJobs : StartJob(j)
    \/ \E j \in 1..MaxJobs, outcome \in {"succeeded", "failed"}, made \in BOOLEAN :
           FinishSync(j, outcome, made)
    \/ \E j \in 1..MaxJobs, outcome \in {"succeeded", "failed"} :
           FinishPublish(j, outcome)
    \/ \E j \in 1..MaxJobs : CancelQueued(j)

SpecDispatch == Init /\ [][NextDispatch]_vars

\* the next step a worker takes for job j: start it, or end it
WorkerStep(j) ==
    \/ StartJob(j)
    \/ \E outcome \in {"succeeded", "failed"}, made \in BOOLEAN :
           FinishSync(j, outcome, made)
    \/ \E outcome \in {"succeeded", "failed"} : FinishPublish(j, outcome)

\* the runtime's scheduling: a job that can start is eventually started (or
\* canceled), and a running job eventually ends
FairRuntime == \A j \in 1..MaxJobs : WF_vars(WorkerStep(j))

\* every repository has its first version
InitLive == Init /\ latest = [repo \in Repos |-> 1]

\* the dispatcher and the runtime, with the syncs' `mirror` option (which
\* neither the reservation nor the runtime looks at) left off
NextLive ==
    \/ \E remote \in Remotes, d \in {x \in SyncData : ~x.mirror} : Sync(remote, d)
    \/ \E publisher \in Publishers, d \in PublishData : Publish(publisher, d)
    \/ \E j \in 1..MaxJobs : WorkerStep(j)
    \/ \E j \in 1..MaxJobs : CancelQueued(j)

SpecDispatchLive == InitLive /\ [][NextLive]_vars /\ FairRuntime

\* the whole program: create requests beside the dispatcher and the runtime
Next == NextCreate \/ NextDispatch

Spec == Init /\ [][Next]_vars

-----------------------------------------------------------------------------
(* Properties of the dispatcher, checked under SpecDispatch *)

\* the repository a job works on
JobRepo(j) ==
    IF jobs[j].op = "sync" THEN jobs[j].kwargs.repository_pk
    ELSE jobs[j].kwargs.repository_version_pk[1]

\* C1: a publish job whose version was resolved from `repository` runs (holds
\* the reservation of its repository) with a version that is still the latest
\* version of that repository.
C1_ResolvedVersionIsLatestWhenRunning ==
    \A j \in DOMAIN jobs :
        (jobs[j].op = "publish" /\ jobs[j].resolved /\ jobs[j].state = "running")
            => jobs[j].kwargs.repository_version_pk = Latest(JobRepo(j))

\* C2: no resource identifier is in the reserved set of two running jobs, and
\* two running jobs (sync or publish) never work on the same repository.
C2_MutualExclusion ==
    \A i, j \in DOMAIN jobs :
        (i # j /\ jobs[i].state = "running" /\ jobs[j].state = "running")
            => /\ jobs[i].resources \cap jobs[j].resources = {}
               /\ JobRepo(i) # JobRepo(j)

\* a sync runs on a repository while a publish of the same repository, enqueued
\* after it, waits in the queue
C2_Witness ==
    \E i, j \in DOMAIN jobs :
        /\ i < j
        /\ JobRepo(i) = JobRepo(j)
        /\ jobs[i].op = "sync" /\ jobs[i].state = "running"
        /\ jobs[j].op = "publish" /\ jobs[j].state = "queued"

\* C3: of two jobs whose reserved sets intersect, the one enqueued later has
\* not started while the one enqueued earlier is still waiting in the queue.
C3_FifoPerOverlap ==
    \A i, j \in DOMAIN jobs :
        (i < j /\ Conflict(i, j) /\ jobs[i].state = "queued")
            => jobs[j].state \in {"queued", "canceled"}

\* the earlier of two overlapping jobs has run to its end and the later runs
C3_Witness ==
    \E i, j \in DOMAIN jobs :
        /\ i < j
        /\ Conflict(i, j)
        /\ jobs[i].state \in {"succeeded", "failed"}
        /\ jobs[j].state = "running"

\* the jobs, other than j, that are queued or running
OtherActive(j) == {i \in DOMAIN jobs : i # j /\ Active(i)}

\* C4 as stated: a queued sync job is free to start beside any unfinished
\* sync jobs whose repositories differ from its own.
C4_DifferentReposNeverSerialized ==
    \A j \in DOMAIN jobs :
        ( /\ jobs[j].op = "sync"
          /\ jobs[j].state = "queued"
          /\ \A i \in OtherActive(j) :
                 jobs[i].op = "sync" /\ JobRepo(i) # JobRepo(j) )
            => ~Blocked(j)

\* C4, amended: a queued sync job is free to start beside any unfinished sync
\* jobs whose repositories and remotes both differ from its own.
C4_DisjointSyncsMayOverlap ==
    \A j \in DOMAIN jobs :
        ( /\ jobs[j].op = "sync"
          /\ jobs[j].state = "queued"
          /\ \A i \in OtherActive(j) :
                 /\ jobs[i].op = "sync"
                 /\ JobRepo(i) # JobRepo(j)
                 /\ jobs[i].kwargs.remote_pk # jobs[j].kwargs.remote_pk )
            => ~Blocked(j)

\* two sync jobs on different repositories and remotes run at the same time
C4_Witness ==
    \E i, j \in DOMAIN jobs :
        /\ i # j
        /\ jobs[i].op = "sync" /\ jobs[j].op = "sync"
        /\ JobRepo(i) # JobRepo(j)
        /\ jobs[i].state = "running" /\ jobs[j].state = "running"

\* the step is a publish request being answered
PublishStep ==
    \/ resp' # resp /\ resp'.op = "publish"
    \/ Len(jobs') > Len(jobs) /\ jobs'[Len(jobs')].op = "publish"

DispatchStep == resp' # resp \/ Len(jobs') # Len(jobs)

\* C12: a sync or publish request either is answered with an error, no handle
\* and the queue as it was, or appends exactly one job, still queued when the
\* answer is given, and is answered 202 with the handle of that job.
C12_ErrorsOnlyBeforeEnqueue ==
    [][DispatchStep =>
          \/ /\ resp'.status \in {400, 500}
             /\ resp'.job = 0
             /\ jobs' = jobs
          \/ /\ resp'.status = 202
             /\ Len(jobs') = Len(jobs) + 1
             /\ SubSeq(jobs', 1, Len(jobs)) = jobs
             /\ resp'.job = Len(jobs')
             /\ jobs'[resp'.job].op = resp'.op
             /\ jobs'[resp'.job].state = "queued"]_vars

\* a request was accepted and answered while its job waits behind a running
\* job that holds an overlapping reservation
C12_Witness ==
    /\ Len(jobs) = 2
    /\ resp.status = 202
    /\ resp.job = 2
    /\ jobs[1].state = "running"
    /\ jobs[2].state = "queued"
    /\ Conflict(1, 2)

\* job j exists and waits in the queue
Queued(j) == j \in DOMAIN jobs /\ jobs[j].state = "queued"

\* job j has been taken by a worker
Started(j) == j \in DOMAIN jobs /\ jobs[j].state \in {"running", "succeeded", "failed"}

\* job j was canceled while it waited
CanceledInQueue(j) == j \in DOMAIN jobs /\ jobs[j].state = "canceled"

\* a request whose data is valid is answered 202 whatever reservations are held
NeverRejectedForReservation ==
    [][DispatchStep =>
          /\ (resp'.op = "sync" /\ resp'.given = {"repository"}) => resp'.status = 202
          /\ ( /\ resp'.op = "publish"
               /\ Cardinality(resp'.given) = 1
               /\ resp'.given = {"repository"} => latest[resp'.repository] > 0 )
                 => resp'.status = 202]_vars

\* a job has started only when every job enqueued before it with an
\* overlapping reservation has released it
StartedAfterRelease ==
    \A i, j \in DOMAIN jobs :
        (i < j /\ Conflict(i, j) /\ Started(j)) => Terminal(i)

\* C13 as stated: every enqueued job eventually becomes running.
C13_EveryJobEventuallyRuns ==
    \A j \in 1..MaxJobs : Queued(j) ~> Started(j)

\* C13, amended: a valid request is queued whatever reservations are held;
\* every enqueued job that is not canceled while it waits is eventually
\* started, and only after the overlapping jobs ahead of it have ended.
C13_QueuedJobRunsUnlessCanceled ==
    /\ NeverRejectedForReservation
    /\ []StartedAfterRelease
    /\ \A j \in 1..MaxJobs :
           Queued(j) ~> (Started(j) \/ CanceledInQueue(j))

\* the later of two overlapping jobs runs after the earlier one, which ran
\* while it waited, has ended
C13_Witness ==
    /\ Len(jobs) = 2
    /\ Conflict(1, 2)
    /\ jobs[1].state = "succeeded"
    /\ jobs[2].state = "running"
    /\ jobs[2].op = "publish"

-----------------------------------------------------------------------------
(* Properties of create, checked under SpecCreate *)

\* the rows request r has written, committed or not
RowsOf(r) == {u \in store : u.owner = r}

\* a row that holds everything create registers for its artifact and filename
FullyFormed(u) ==
    /\ u.artifact \in DOMAIN ArtifactMeta
    /\ u.name = ArtifactMeta[u.artifact].name
    /\ u.name # ""
    /\ u.version = ArtifactMeta[u.artifact].version
    /\ u.packagetype \in DOMAIN DIST_TYPES
    /\ u.classifiers = [i \in DOMAIN ArtifactMeta[u.artifact].classifiers |->
                           [name |-> ArtifactMeta[u.artifact].classifiers[i]]]

\* C5: every visible row is fully formed and belongs to a request that has
\* returned 201; a returned request has added exactly one row (201) or has
\* left no row at all (any failure).
C5_CreateAtomic ==
    /\ \A u \in Visible :
           /\ FullyFormed(u)
           /\ creq[u.owner].pc = "done"
           /\ creq[u.owner].status = 201
    /\ \A r \in Requests :
           creq[r].pc = "done" =>
               IF creq[r].status = 201
               THEN Cardinality(RowsOf(r)) = 1 /\ RowsOf(r) \subseteq Visible
               ELSE RowsOf(r) = {}

\* a request failed in the persistence layer after it had written its content
\* row, and nothing of it is left
C5_Witness ==
    \E r \in Requests :
        /\ creq[r].pc = "done"
        /\ creq[r].error = [kind |-> "db", at |-> "inserted"]
        /\ RowsOf(r) = {}

\* the request lacks one of the two required fields
LacksField(r) == creq[r].fields # {"artifact", "filename"}

\* nothing of the extraction happened for request r
NoExtraction(r) ==
    /\ creq[r].td = 0
    /\ creq[r].packagetype = "unset"
    /\ creq[r].reads = 0
    /\ RowsOf(r) = {}

\* C6 as stated: a request without `artifact` fails naming `artifact`, a request
\* without `filename` fails naming `filename`, before any extraction work.
C6_ErrorNamesEachMissingField ==
    \A r \in Requests :
        (creq[r].pc # "idle" /\ LacksField(r)) =>
            /\ creq[r].pc = "done"
            /\ creq[r].status = 400
            /\ NoExtraction(r)
            /\ "artifact" \notin creq[r].fields => creq[r].error = [kind |-> "required", field |-> "artifact"]
            /\ "filename" \notin creq[r].fields => creq[r].error = [kind |-> "required", field |-> "filename"]

\* C6, amended: a request without `artifact` fails naming `artifact` (also when
\* `filename` is absent too); a request with a resolvable `artifact` and without
\* `filename` fails naming `filename`; both before any extraction work.
C6_MissingFieldFailsFirst ==
    \A r \in Requests :
        (creq[r].pc # "idle" /\ LacksField(r)) =>
            /\ creq[r].pc = "done"
            /\ creq[r].status = 400
            /\ NoExtraction(r)
            /\ "artifact" \notin creq[r].fields => creq[r].error = [kind |-> "required", field |-> "artifact"]
            /\ ("artifact" \in creq[r].fields /\ creq[r].artifact # "nx")
                   => creq[r].error = [kind |-> "required", field |-> "filename"]

\* a request with an artifact and no filename has failed
C6_Witness ==
    \E r \in Requests :
        /\ creq[r].pc = "done"
        /\ creq[r].fields = {"artifact"}
        /\ creq[r].artifact = "a1"
        /\ creq[r].error = [kind |-> "required", field |-> "filename"]

\* C7: the directories on disk are exactly those of the requests inside the
\* `with` block, one each; a request that left the block, on any path, has no
\* directory left.
C7_WorkspaceReleased ==
    /\ tempdirs = {creq[r].td : r \in {x \in Requests : creq[x].pc = "workspace"}}
    /\ \A r \in Requests : creq[r].pc # "workspace" => creq[r].td \notin tempdirs
    /\ \A r1, r2 \in Requests :
           (r1 # r2 /\ creq[r1].pc = "workspace" /\ creq[r2].pc = "workspace")
               => creq[r1].td # creq[r2].td

\* the reader raised in one request while another request is inside its own
\* workspace
C7_Witness ==
    \E r1, r2 \in Requests :
        /\ r1 # r2
        /\ creq[r1].pc = "done"
        /\ creq[r1].error.kind = "reader"
        /\ creq[r1].td # 0
        /\ creq[r2].pc = "workspace"

\* the (artifact, filename) pair request r submitted
Submitted(r) == <<creq[r].artifact, creq[r].filename>>

\* C8: no two visible rows have the same (artifact, filename); of the requests
\* that submitted the same pair at most one returned 201, and a request that
\* returned while another request's row with its pair was visible did not
\* create a row; a conflict error is given only when such a row exists.
C8_NoDuplicateUnit ==
    /\ \A u, v \in Visible : UniqueKey(u) = UniqueKey(v) => u = v
    /\ \A r1, r2 \in Requests :
           ( /\ r1 # r2
             /\ creq[r1].pc = "done" /\ creq[r2].pc = "done"
             /\ creq[r1].fields = {"artifact", "filename"}
             /\ creq[r2].fields = {"artifact", "filename"}
             /\ Submitted(r1) = Submitted(r2) )
               => ~(creq[r1].status = 201 /\ creq[r2].status = 201)
    /\ \A r \in Requests :
           (creq[r].pc = "done" /\ creq[r].error.kind = "conflict")
               => /\ RowsOf(r) = {}
                  /\ \E u \in Visible : u.owner # r /\ UniqueKey(u) = Submitted(r)

\* the same pair was submitted twice: one request created the unit, the other
\* ended in a conflict
C8_Witness ==
    \E r1, r2 \in Requests :
        /\ r1 # r2
        /\ Submitted(r1) = Submitted(r2)
        /\ creq[r1].pc = "done" /\ creq[r1].status = 201
        /\ creq[r2].pc = "done" /\ creq[r2].error.kind = "conflict"
        /\ Cardinality(Visible) = 1

-----------------------------------------------------------------------------
(* Properties of format detection, checked under SpecDetect *)

\* request r got as far as the detection loop
ReachedDetection(r) ==
    /\ creq[r].pc # "idle"
    /\ creq[r].fields = {"artifact", "filename"}
    /\ creq[r].artifact # "nx"

\* the filename ends with some suffix of the extension table
Recognized(filename) ==
    \E i \in DOMAIN DIST_EXTENSIONS : EndsWith(filename, DIST_EXTENSIONS[i].ext)

\* C9: a filename that ends in ".tar.gz" or ".tar.bz2" is detected as "sdist":
\* the request enters the workspace with that type and never gets the
\* extension error.
C9_CompoundSuffixIsSdist ==
    (ReachedDetection(1)
        /\ (EndsWith(creq[1].filename, ExtTarGz) \/ EndsWith(creq[1].filename, ExtTarBz2)))
    => /\ creq[1].packagetype = "sdist"
       /\ creq[1].td # 0
       /\ creq[1].error.kind # "extension"

\* "p.zip.tar.gz" has been detected as a source distribution
C9_Witness ==
    /\ creq[1].filename = <<"p">> \o ExtZip \o ExtTarGz
    /\ creq[1].pc = "workspace"
    /\ creq[1].packagetype = "sdist"

\* the elements of a sequence
Range(seq) == {seq[i] : i \in DOMAIN seq}

\* C10: a filename that ends in no suffix of the table makes create fail with
\* the extension error, which carries the filename and every suffix of the
\* table; no workspace, no reader call, no row.
C10_UnrecognizedSuffixRejected ==
    /\ (ReachedDetection(1) /\ ~Recognized(creq[1].filename))
       => /\ creq[1].pc = "done"
          /\ creq[1].status = 400
          /\ creq[1].error.kind = "extension"
          /\ creq[1].error.filename = creq[1].filename
          /\ Range(creq[1].error.accepted) =
                 {DIST_EXTENSIONS[i].ext : i \in DOMAIN DIST_EXTENSIONS}
    /\ (creq[1].pc # "idle" /\ "filename" \in creq[1].fields
            /\ ~Recognized(creq[1].filename))
       => /\ creq[1].td = 0
          /\ creq[1].reads = 0
          /\ creq[1].status # 201
          /\ store = {}

\* "p.tar.gz.gz"-like input: "p.gz" has been rejected
C10_Witness ==
    /\ creq[1].pc = "done"
    /\ creq[1].filename = <<"p", ".", "g", "z">>
    /\ creq[1].error.kind = "extension"

-----------------------------------------------------------------------------
(* The registered unit, under SpecCreate and SpecDetect *)

\* the unit as the API returns it when it is read back
Representation(u) ==
    [name |-> u.name, version |-> u.version, packagetype |-> u.packagetype,
     filename |-> u.filename, classifiers |-> u.classifiers]

\* the names of a list of classifier records
Names(records) == [i \in DOMAIN records |-> records[i].name]

C15_TypeAndVersionAsReaderReported ==
    \A r \in Requests :
        creq[r].status = 201
        => \A u \in RowsOf(r) :
              /\ u.version = ArtifactMeta[creq[r].artifact].version
              /\ u.packagetype = ArtifactMeta[creq[r].artifact].packagetype

\* C15 as amended: for every successful create the registered unit's version
\* is the version the reader reported for the archive, and its packagetype
\* is the format of the table entry the filename ends with, whatever
\* packagetype the reader reported.
C15_VersionAsReadTypeAsDetected ==
    \A r \in Requests :
        creq[r].status = 201
        => \A u \in RowsOf(r) :
              /\ u.version = ArtifactMeta[creq[r].artifact].version
              /\ \E i \in DOMAIN DIST_EXTENSIONS :
                    /\ EndsWith(creq[r].filename, DIST_EXTENSIONS[i].ext)
                    /\ u.packagetype = DIST_EXTENSIONS[i].packagetype
              /\ creq[r].metadata.packagetype = u.packagetype

\* the archive whose reader says wheel was registered as a source
\* distribution under the name "p.tar.gz"
C15_Witness ==
    \E r \in Requests :
        /\ creq[r].status = 201
        /\ creq[r].filename = <<"p">> \o ExtTarGz
        /\ ArtifactMeta[creq[r].artifact].packagetype = "bdist_wheel"
        /\ \E u \in RowsOf(r) : u.packagetype = "sdist" /\ u.version = "1.0"

\* C16: every unit in the content store has a filename that ends with a
\* suffix of the extension table whose format is the unit's packagetype:
\* wheel for .whl, legacy installer for .exe, egg for .egg, source
\* distribution for .tar.gz, .tar.bz2 and .zip.
C16_StoredFilenameMatchesType ==
    \A u \in store :
        \E e \in { <<ExtWhl, "bdist_wheel">>, <<ExtExe, "bdist_wininst">>,
                    <<ExtEgg, "bdist_egg">>, <<ExtTarGz, "sdist">>,
                    <<ExtTarBz2, "sdist">>, <<ExtZip, "sdist">> } :
            /\ EndsWith(u.filename, e[1])
            /\ u.packagetype = e[2]

\* "p.whl.zip" has been registered, as a source distribution
C16_Witness ==
    /\ creq[1].status = 201
    /\ \E u \in Visible :
          /\ u.filename = <<"p">> \o ExtWhl \o ExtZip
          /\ u.packagetype = "sdist"

\* the loop of lines 87-88 run over a table given in some order
DetectIn(table, filename) ==
    LET hit == {i \in DOMAIN table : EndsWith(filename, table[i].ext)}
    IN  IF hit = {} THEN "none"
        ELSE table[CHOOSE i \in hit : \A j \in hit : i <= j].packagetype

\* the extension table iterated in the order perm
Reordered(perm) == [i \in DOMAIN DIST_EXTENSIONS |-> DIST_EXTENSIONS[perm[i]]]

\* C17: detection does not depend on the iteration order of the extension
\* table. No entry of the table is a suffix of another; the format create
\* detected for its filename is the format the loop finds under every
\* permutation of the table; and a create enters at most one temporary
\* directory and calls the reader at most once.
C17_DetectionOrderIndependent ==
    /\ \A i, j \in DOMAIN DIST_EXTENSIONS :
          i # j => ~EndsWith(DIST_EXTENSIONS[i].ext, DIST_EXTENSIONS[j].ext)
    /\ ReachedDetection(1)
          => \A perm \in Permutations(DOMAIN DIST_EXTENSIONS) :
                DetectIn(Reordered(perm), creq[1].filename) = creq[1].packagetype
    /\ dirCount <= 1
    /\ Cardinality(tempdirs) <= 1
    /\ creq[1].reads <= 1

\* "p.tar.gz.zip", which holds two suffixes of the table, has been read once
\* in one directory and detected as a source distribution
C17_Witness ==
    /\ creq[1].filename = <<"p">> \o ExtTarGz \o ExtZip
    /\ creq[1].packagetype = "sdist"
    /\ creq[1].reads = 1
    /\ dirCount = 1
    /\ tempdirs = {}

-----------------------------------------------------------------------------
(* Payload and reservation, under SpecDispatch *)

\* the job the last response handed out
Answered(j) == resp.status = 202 /\ resp.job = j

\* C18: every enqueued job's payload refers only to resources of its own
\* reservation. A sync job reserves exactly the repository named in the
\* request and the remote the request was addressed to, and its payload
\* carries that repository and that remote; a publish job reserves exactly
\* the repository that owns the version in its payload and the publisher the
\* request was addressed to, whether the version was given or resolved from
\* `repository`.
C18_PayloadInsideReservation ==
    \A j \in DOMAIN jobs :
        /\ jobs[j].op = "sync"
           => /\ jobs[j].resources =
                    {jobs[j].kwargs.repository_pk, jobs[j].kwargs.remote_pk}
              /\ Answered(j)
                    => /\ jobs[j].kwargs.repository_pk = resp.repository
                       /\ jobs[j].kwargs.remote_pk = resp.target
        /\ jobs[j].op = "publish"
           => /\ jobs[j].resources =
                    {jobs[j].kwargs.repository_version_pk[1],
                     jobs[j].kwargs.publisher_pk}
              /\ jobs[j].kwargs.repository_version_pk \in Versions
              /\ Answered(j)
                    => /\ jobs[j].kwargs.publisher_pk = resp.target
                       /\ jobs[j].resolved
                            => jobs[j].kwargs.repository_version_pk[1]
                                   = resp.repository

\* a sync and, after it, a publish whose version was resolved from
\* `repository` are both enqueued, the publish just answered
C18_Witness ==
    /\ Len(jobs) = 2
    /\ jobs[1].op = "sync"
    /\ jobs[2].op = "publish"
    /\ jobs[2].resolved
    /\ resp.status = 202
    /\ resp.job = 2
    /\ resp.given = {"repository"}
    /\ jobs[2].resources = {resp.repository, resp.target}

=============================================================================
